---- MODULE Spec2Model ----
(***************************************************************************)
(* Model of the obsidian prettier plugin's formatting core:                *)
(*   - the MagicString buffer (original/current text, edit log) and its    *)
(*     offset-tracking edit primitives (src/utils/string, described in     *)
(*     spec.md sections 3 and 4),                                          *)
(*   - the structural passes of src/src/formatter.ts,                      *)
(*   - the image uploader of src/src/image-uploader.ts,                    *)
(*   - the three format operations of src/src/formatter.ts.                *)
(* Text is a sequence of one-character strings; offsets are 0-based as in  *)
(* the source, so the character at offset k is text[k + 1].                *)
(***************************************************************************)
EXTENDS Integers, Sequences, FiniteSets, TLC

VARIABLES
  pc,          \* position of the modelled operation / pass
  content,     \* the MagicString: [original, current, log]
  index,       \* the tracked offset threaded through the edit calls
  kind,        \* which primitive the pass replays with: delete / insert / update
  edits,       \* edits of the pass not yet applied (document order)
  planned,     \* history: all edits of the pass (document order)
  scanned,     \* history: the text the pass / the operation started from
  index0,      \* history: the tracked offset handed to the pass
  lastEdit,    \* history: the edit of the most recent primitive call
  lastIndex,   \* history: the tracked offset handed to that call
  settings,    \* the plugin settings the operation reads
  calls,       \* the uploadImages calls (SpecOverlap: the format operations) in progress
  failedUrls,  \* ImageUploader.failedUrls
  candidates,  \* the candidates findImageMatches returned for the scanned text
  op,          \* the format operation: file / content / selection
  uploads,     \* the uploads of the operation's uploadImages call
  env,         \* the editor / vault: [fastMode, text, cursor]
  effects,     \* the calls the operation made on the vault / the editor
  trace,       \* history of the operation's steps
  writes       \* history: the write-backs, each with the text it replaced

passVars == <<pc, content, index, scanned, index0>>
replayVars == <<kind, edits, planned, lastEdit, lastIndex>>
uploaderVars == <<calls, failedUrls, candidates>>
opVars == <<op, uploads, env, effects, trace, writes>>
envVars == <<settings, uploaderVars, opVars>>
vars == <<passVars, replayVars, envVars>>

(***************************************************************************)
(* Bounds of the model.                                                    *)
(***************************************************************************)
MaxLen == 3
MaxEdits == 2
MaxRep == 2
MaxLines == 4
MaxStartLevel == 2
MaxHeadings == 6
MaxDepth == 3

\* The "no tracking" sentinel (let offset = -1).
NoTracking == -1

(***************************************************************************)
(* Generic helpers.                                                        *)
(***************************************************************************)
Min(a, b) == IF a < b THEN a ELSE b

MinOf(S) == CHOOSE d \in S : \A e \in S : d <= e

RECURSIVE SumSeq(_)
SumSeq(s) == IF s = <<>> THEN 0 ELSE Head(s) + SumSeq(Tail(s))

\* text.slice(a, b) for 0 <= a <= b <= length
Slice(text, a, b) == SubSeq(text, a + 1, b)

EndsWith(text, ch) == Len(text) > 0 /\ text[Len(text)] = ch

(***************************************************************************)
(* MagicString (spec.md 3, 4.2, 4.3).                                      *)
(***************************************************************************)
NewMagicString(str) == [original |-> str, current |-> str, log |-> <<>>]

isModified(c) == c.current # c.original

\* len(replacement) - (end - start) of one edit record
Delta(e) == Len(e.text) - (e.end - e.start)

\* 4.2 step 1: the cumulative shift of the applied edits whose start is
\* strictly less than the new edit's start.
RECURSIVE Shift(_, _)
Shift(log, start) ==
  IF log = <<>> THEN 0
  ELSE (IF Head(log).start < start THEN Delta(Head(log)) ELSE 0) + Shift(Tail(log), start)

\* 4.3 error behaviour: start > end, end beyond the buffer, negative start.
ValidSpan(c, start, end) ==
  /\ start >= 0
  /\ start <= end
  /\ start + Shift(c.log, start) >= 0
  /\ end + Shift(c.log, start) <= Len(c.current)

\* 4.2 step 4: the tracked offset after the edit; -1 short-circuits.
Remap(c, start, end, text, offset) ==
  IF offset = NoTracking THEN NoTracking
  ELSE IF offset < start THEN offset
  ELSE IF offset >= end THEN offset + Len(text) - (end - start)
  ELSE start + Shift(c.log, start)

\* 4.2 steps 1-4. The result carries ok = FALSE when the call throws.
update(c, start, end, text, offset) ==
  IF ~ValidSpan(c, start, end)
  THEN [ok |-> FALSE, content |-> c, offset |-> offset]
  ELSE LET shift == Shift(c.log, start)
           cur == c.current
       IN [ok |-> TRUE,
           content |-> [c EXCEPT
              !.current = Slice(cur, 0, start + shift) \o text
                            \o Slice(cur, end + shift, Len(cur)),
              !.log = Append(@, [start |-> start, end |-> end, text |-> text])],
           offset |-> Remap(c, start, end, text, offset)]

delete(c, start, end, offset) == update(c, start, end, <<>>, offset)

insert(c, at, text, offset) == update(c, at, at, text, offset)

\* mutate(wholeNewText): overwrite current, clear the edit log.
mutate(c, str) == [c EXCEPT !.current = str, !.log = <<>>]

\* append(text)
append(c, text) == [c EXCEPT !.current = @ \o text]

\* delete(-1): the deletion of the trailing character
deleteLast(c) == [c EXCEPT !.current = Slice(@, 0, Len(@) - 1)]

(***************************************************************************)
(* The replay loop shared by the passes: the edits found in document       *)
(* order are applied back to front, each call's return value being the     *)
(* tracked offset of the next call.                                        *)
(***************************************************************************)
\* mutant: replay in document order
PickFirst(es) == 1

\* matches.toReversed() / edits.reverse() / results.sort(descending start):
\* the next edit to apply is the last one not yet applied.
PickNext(es) == Len(es)

\* mutant: update with (start, start) instead of (start, end)
ApplyEditWrongEnd(k, c, e, idx) ==
  IF k = "delete" THEN delete(c, e.start, e.start, idx)
  ELSE IF k = "insert" THEN insert(c, e.start, <<" ">>, idx)
  ELSE update(c, e.start, e.start, e.text, idx)

\* mutant: the returned offset is dropped
ApplyEditKeepIndex(k, c, e, idx) ==
  LET r == IF k = "delete" THEN delete(c, e.start, e.end, idx)
           ELSE IF k = "insert" THEN insert(c, e.end, <<" ">>, idx)
           ELSE update(c, e.start, e.end, e.text, idx)
  IN [r EXCEPT !.offset = idx]

\* The body of the loop: removeExtraSpaces calls delete, addTrailingSpaces
\* inserts one space at the match's end, the others call update.
ApplyEdit(k, c, e, idx) ==
  IF k = "delete" THEN delete(c, e.start, e.end, idx)
  ELSE IF k = "insert" THEN insert(c, e.end, <<" ">>, idx)
  ELSE update(c, e.start, e.end, e.text, idx)

RemoveAt(s, i) == SubSeq(s, 1, i - 1) \o SubSeq(s, i + 1, Len(s))

\* for (const edit of edits.reverse()) index = content.update(...): the whole
\* loop. A call that throws ends the loop with ok = FALSE.
RECURSIVE ReplayAll(_, _, _, _)
ReplayAll(k, c, es, idx) ==
  IF es = <<>> THEN [ok |-> TRUE, content |-> c, offset |-> idx]
  ELSE LET i == PickNext(es)
           r == ApplyEdit(k, c, es[i], idx)
       IN IF r.ok THEN ReplayAll(k, r.content, RemoveAt(es, i), r.offset)
          ELSE r

(***************************************************************************)
(* Lines and the regular expressions of the heading passes.                *)
(***************************************************************************)
NL == "\n"
\* the backquote character (U+0060), which a TLA+ string cannot hold
BackTick == "bq"
Whitespace == {" ", "\t"}
DigitChars == <<"0", "1", "2", "3", "4", "5", "6", "7", "8", "9">>
NumberChars == {DigitChars[i] : i \in 1..Len(DigitChars)} \cup {"."}

\* text.split("\n"): the pieces between consecutive line breaks
Split(text) ==
  LET breaks == {i \in 1..Len(text) : text[i] = NL}
      n == Cardinality(breaks)
      at == [k \in 0..(n + 1) |->
               IF k = 0 THEN 0
               ELSE IF k = n + 1 THEN Len(text) + 1
               ELSE CHOOSE p \in breaks : Cardinality({q \in breaks : q < p}) = k - 1]
  IN [k \in 1..(n + 1) |-> SubSeq(text, at[k - 1] + 1, at[k] - 1)]

\* lines.join("\n")
RECURSIVE JoinLines(_)
JoinLines(lines) ==
  IF lines = <<>> THEN <<>>
  ELSE IF Len(lines) = 1 THEN lines[1]
  ELSE lines[1] \o <<NL>> \o JoinLines(Tail(lines))

\* the number of consecutive characters of line, from offset pos on, that
\* belong to the set chars (a greedy character-class run)
RECURSIVE RunLen(_, _, _)
RunLen(line, pos, chars) ==
  IF pos < Len(line) /\ line[pos + 1] \in chars
  THEN 1 + RunLen(line, pos + 1, chars)
  ELSE 0

Repeat(ch, n) == [i \in 1..n |-> ch]

\* line.trim().startsWith(three backquotes)
IsFence(line) ==
  LET lead == RunLen(line, 0, Whitespace)
  IN RunLen(line, lead, {BackTick}) >= 3

\* line.match(/^(\s*)(#+)(\s+)/) and line.match(/^(\s*)(#+)(\s+)(.*)$/):
\* the lengths of the groups, and the text of group 4.
HeaderMatch(line) ==
  LET indent == RunLen(line, 0, Whitespace)
      hashes == RunLen(line, indent, {"#"})
      space == RunLen(line, indent + hashes, Whitespace)
  IN [ok |-> hashes >= 1 /\ space >= 1,
      indent |-> indent, hashes |-> hashes, space |-> space,
      text |-> Slice(line, indent + hashes + space, Len(line))]

\* text.match(/^([\d\.]+)(?:\s+(.*))?$/): the length of group 1
NumberMatch(text) ==
  LET num == RunLen(text, 0, NumberChars)
  IN [ok |-> num >= 1 /\ (num = Len(text) \/ text[num + 1] \in Whitespace),
      existingNum |-> Slice(text, 0, num)]

\* mutant: a fence line does not toggle the flag
ToggleNever(line, inCodeBlock) == inCodeBlock

\* if (line.trim().startsWith(fence)) inCodeBlock = !inCodeBlock
ToggleCodeBlock(line, inCodeBlock) ==
  IF IsFence(line) THEN ~inCodeBlock ELSE inCodeBlock

\* let minLevel = 100
MinLevelInit == 100
\* newLevel <= 6
MaxHeaderLevel == 6

\* The first loop of both heading passes: the minimum number of hashes over
\* the headings outside fenced blocks (MinLevelInit when there is none).
RECURSIVE MinLevelScan(_, _, _, _)
MinLevelScan(lines, i, inCodeBlock, minLevel) ==
  IF i > Len(lines) THEN minLevel
  ELSE LET inCode == ToggleCodeBlock(lines[i], inCodeBlock)
           m == HeaderMatch(lines[i])
       IN MinLevelScan(lines, i + 1, inCode,
             IF ~inCode /\ m.ok /\ m.hashes < minLevel THEN m.hashes ELSE minLevel)

RECURSIVE HasHeaderScan(_, _, _)
HasHeaderScan(lines, i, inCodeBlock) ==
  IF i > Len(lines) THEN FALSE
  ELSE LET inCode == ToggleCodeBlock(lines[i], inCodeBlock)
       IN (~inCode /\ HeaderMatch(lines[i]).ok) \/ HasHeaderScan(lines, i + 1, inCode)

\* mutant: the upper limit of the new level is not checked
ShouldShiftNoLimit(currentLevel, newLevel) ==
  newLevel # currentLevel /\ newLevel >= 1

\* mutant: a heading is not moved to the first level
ShouldShiftAboveOne(currentLevel, newLevel) ==
  newLevel # currentLevel /\ newLevel >= 2 /\ newLevel <= 6

\* newLevel !== currentLevel && newLevel >= 1 && newLevel <= 6
ShouldShift(currentLevel, newLevel) ==
  newLevel # currentLevel /\ newLevel >= 1 /\ newLevel <= MaxHeaderLevel

\* The second loop of adjustHeaderLevels: the edits, in document order.
RECURSIVE LevelEditsScan(_, _, _, _, _)
LevelEditsScan(lines, i, inCodeBlock, currentOffset, shift) ==
  IF i > Len(lines) THEN <<>>
  ELSE LET line == lines[i]
           inCode == ToggleCodeBlock(line, inCodeBlock)
           m == HeaderMatch(line)
           newLevel == m.hashes + shift
           start == currentOffset + m.indent
           here == IF ~inCode /\ m.ok /\ ShouldShift(m.hashes, newLevel)
                   THEN <<[start |-> start, end |-> start + m.hashes,
                           text |-> Repeat("#", newLevel)]>>
                   ELSE <<>>
       IN here \o LevelEditsScan(lines, i + 1, inCode, currentOffset + Len(line) + 1, shift)

adjustHeaderLevels(c, headerStartLevel, offset) ==
  LET lines == Split(c.current)
      minLevel == MinLevelScan(lines, 1, FALSE, MinLevelInit)
      shift == headerStartLevel - minLevel
  IN IF ~HasHeaderScan(lines, 1, FALSE) THEN [ok |-> TRUE, content |-> c, offset |-> offset]
     ELSE IF shift = 0 THEN [ok |-> TRUE, content |-> c, offset |-> offset]
     ELSE ReplayAll("update", c, LevelEditsScan(lines, 1, FALSE, 0, shift), offset)

\* String(n) for n >= 0
RECURSIVE ToDigits(_)
ToDigits(n) ==
  IF n < 10 THEN <<DigitChars[n + 1]>>
  ELSE ToDigits(n \div 10) \o <<DigitChars[(n % 10) + 1]>>

\* counters.join(".")
RECURSIVE JoinCounters(_)
JoinCounters(counters) ==
  IF counters = <<>> THEN <<>>
  ELSE IF Len(counters) = 1 THEN ToDigits(counters[1])
  ELSE ToDigits(counters[1]) \o <<".">> \o JoinCounters(Tail(counters))

\* mutant: the deeper counters are kept when a shallower heading comes
NextCountersNoTruncate(counters, level) ==
  IF level > Len(counters)
  THEN counters \o [i \in 1..(level - Len(counters)) |-> 1]
  ELSE [counters EXCEPT ![level] = @ + 1]

\* if (level > counters.length) push 1s else slice(0, level) and increment
NextCounters(counters, level) ==
  IF level > Len(counters)
  THEN counters \o [i \in 1..(level - Len(counters)) |-> 1]
  ELSE [SubSeq(counters, 1, level) EXCEPT ![level] = @ + 1]

\* numbering, with a trailing dot at level 1 only
Prefix(counters, level) ==
  JoinCounters(counters) \o (IF level = 1 THEN <<".">> ELSE <<>>)

\* The edit for one heading: replace the dotted number its text starts
\* with when that differs from the prefix, or insert the prefix and a space.
NumberingEdit(m, tm, prefix, textStartOffset) ==
  IF tm.ok
  THEN (IF tm.existingNum # prefix
        THEN <<[start |-> textStartOffset,
                end |-> textStartOffset + Len(tm.existingNum),
                text |-> prefix]>>
        ELSE <<>>)
  ELSE <<[start |-> textStartOffset, end |-> textStartOffset,
          text |-> prefix \o <<" ">>]>>

\* One heading outside fences: the counters move on, the edit is recorded.
NumberingVisit(m, level, cs, currentOffset, acc) ==
  [counters |-> cs,
   edits |-> acc.edits \o NumberingEdit(m, NumberMatch(m.text), Prefix(cs, level),
                              currentOffset + m.indent + m.hashes + m.space),
   prefixes |-> Append(acc.prefixes, Prefix(cs, level))]

NumberingLine(m, inCode, currentOffset, minLevel, acc) ==
  IF ~inCode /\ m.ok
  THEN NumberingVisit(m, m.hashes - minLevel + 1,
                      NextCounters(acc.counters, m.hashes - minLevel + 1),
                      currentOffset, acc)
  ELSE acc

\* The second loop of addHeaderNumbering: the edits in document order, and
\* (for the claims) the prefix computed for each heading it visits.
RECURSIVE NumberingScan(_, _, _, _, _, _)
NumberingScan(lines, i, inCodeBlock, currentOffset, minLevel, acc) ==
  IF i > Len(lines) THEN acc
  ELSE NumberingScan(lines, i + 1, ToggleCodeBlock(lines[i], inCodeBlock),
                     currentOffset + Len(lines[i]) + 1, minLevel,
                     NumberingLine(HeaderMatch(lines[i]),
                                   ToggleCodeBlock(lines[i], inCodeBlock),
                                   currentOffset, minLevel, acc))

NoEdits == [counters |-> <<>>, edits |-> <<>>, prefixes |-> <<>>]

addHeaderNumbering(c, offset) ==
  LET lines == Split(c.current)
      minLevel == MinLevelScan(lines, 1, FALSE, MinLevelInit)
  IN IF minLevel = MinLevelInit THEN [ok |-> TRUE, content |-> c, offset |-> offset]
     ELSE ReplayAll("update", c,
                    NumberingScan(lines, 1, FALSE, 0, minLevel, NoEdits).edits, offset)

\* the prefixes addHeaderNumbering computes for the headings of the lines
NumberingOf(lines) ==
  LET minLevel == MinLevelScan(lines, 1, FALSE, MinLevelInit)
  IN IF minLevel = MinLevelInit THEN <<>>
     ELSE NumberingScan(lines, 1, FALSE, 0, minLevel, NoEdits).prefixes

(***************************************************************************)
(* ImageUploader (src/src/image-uploader.ts). A word such as http, a host  *)
(* name or <img is one symbol of the text; punctuation is one symbol per   *)
(* character.                                                              *)
(***************************************************************************)
Quote == "\""

StartsWith(str, pre) == Len(str) >= Len(pre) /\ SubSeq(str, 1, Len(pre)) = pre

\* str.includes(sub)
Includes(str, sub) ==
  \E i \in 0..(Len(str) - Len(sub)) : SubSeq(str, i + 1, i + Len(sub)) = sub

\* str.indexOf(sub), or -1
IndexOf(str, sub) ==
  IF Includes(str, sub)
  THEN MinOf({i \in 0..(Len(str) - Len(sub)) : SubSeq(str, i + 1, i + Len(sub)) = sub})
  ELSE -1

\* no line break between offsets a (inclusive) and b (exclusive): what . matches
NoBreak(text, a, b) == \A i \in (a + 1)..b : text[i] # NL

\* /!\[(.*?)\]\((.*?)\)/ tried at offset p: the offsets q of the lazy "]("
\* and r of the closing parenthesis, or no match.
MdCloses(text, q) ==
  {r \in (q + 2)..(Len(text) - 1) : text[r + 1] = ")" /\ NoBreak(text, q + 2, r)}

MdMids(text, p) ==
  {q \in (p + 2)..(Len(text) - 2) :
     /\ text[q + 1] = "]"
     /\ text[q + 2] = "("
     /\ NoBreak(text, p + 2, q)
     /\ MdCloses(text, q) # {}}

MdMatchAt(text, p) ==
  IF p + 2 <= Len(text) /\ text[p + 1] = "!" /\ text[p + 2] = "[" /\ MdMids(text, p) # {}
  THEN LET q == MinOf(MdMids(text, p))
           r == MinOf(MdCloses(text, q))
           alt == Slice(text, p + 2, q)
           url == Slice(text, q + 2, r)
           urlStart == p + 2 + Len(alt) + 2
       IN [ok |-> TRUE, alt |-> alt, url |-> url, start |-> p, end |-> r + 1,
           urlStart |-> urlStart, urlEnd |-> urlStart + Len(url)]
  ELSE [ok |-> FALSE, end |-> p + 1]

\* /<img\s+[^>]*src=["']([^"']+)["'][^>]*>/ tried at offset p: the greedy
\* [^>]* takes the last src= that lets the rest match.
ImgWhitespace == {" ", "\t", NL}
Quotes == {Quote, "'"}

ImgUrlEnd(text, s) == s + 2 + RunLen(text, s + 2, {text[i] : i \in 1..Len(text)} \ Quotes)

ImgSrcs(text, p) ==
  {s \in (p + 2)..(Len(text) - 4) :
     /\ \A i \in (p + 1)..(s - 1) : text[i + 1] # ">"
     /\ text[s + 1] = "src="
     /\ text[s + 2] \in Quotes
     /\ ImgUrlEnd(text, s) > s + 2
     /\ ImgUrlEnd(text, s) < Len(text)
     /\ \E g \in (ImgUrlEnd(text, s) + 1)..(Len(text) - 1) : text[g + 1] = ">"}

ImgMatchAt(text, p) ==
  IF /\ p + 2 <= Len(text)
     /\ text[p + 1] = "<img"
     /\ text[p + 2] \in ImgWhitespace
     /\ ImgSrcs(text, p) # {}
  THEN LET s == CHOOSE x \in ImgSrcs(text, p) : \A y \in ImgSrcs(text, p) : y <= x
           t == ImgUrlEnd(text, s)
           g == MinOf({h \in (t + 1)..(Len(text) - 1) : text[h + 1] = ">"})
           url == Slice(text, s + 2, t)
           srcIndex == IndexOf(Slice(text, p, g + 1), url)
       IN [ok |-> TRUE, alt |-> <<>>, url |-> url, start |-> p, end |-> g + 1,
           urlStart |-> p + srcIndex, urlEnd |-> p + srcIndex + Len(url)]
  ELSE [ok |-> FALSE, end |-> p + 1]

\* while ((match = regex.exec(text)) !== null): all matches from offset p
\* on; m is the attempt at p, the search resumes at m.end
RECURSIVE MdMatches(_, _)
MdNext(text, m) == (IF m.ok THEN <<m>> ELSE <<>>) \o MdMatches(text, m.end)

MdMatches(text, p) == IF p >= Len(text) THEN <<>> ELSE MdNext(text, MdMatchAt(text, p))

RECURSIVE ImgMatches(_, _)
ImgNext(text, m) == (IF m.ok THEN <<m>> ELSE <<>>) \o ImgMatches(text, m.end)

ImgMatches(text, p) == IF p >= Len(text) THEN <<>> ELSE ImgNext(text, ImgMatchAt(text, p))

findImageMatches(text) == MdMatches(text, 0) \o ImgMatches(text, 0)

\* `${bucket}.cos.${region}.myqcloud.com`
StandardDomain(cos) == cos.bucket \o <<".cos.">> \o cos.region \o <<".myqcloud.com">>

\* mutant: the failed set is not consulted
shouldUploadIgnoreFailed(url, cos, failed) ==
  IF StartsWith(url, <<"http">>)
  THEN ~(cos.domain # <<>> /\ Includes(url, cos.domain))
         /\ ~Includes(url, StandardDomain(cos))
  ELSE TRUE

shouldUpload(url, cos, failed) ==
  IF url \in failed THEN FALSE
  ELSE IF StartsWith(url, <<"http">>)
       THEN IF cos.domain # <<>> /\ Includes(url, cos.domain) THEN FALSE
            ELSE IF cos.bucket # <<>> /\ cos.region # <<>>
                      /\ Includes(url, StandardDomain(cos)) THEN FALSE
            ELSE TRUE
       ELSE TRUE

\* the early returns of uploadImages: settings, bucket and region, initCos
CosReady(cos) ==
  /\ cos.bucket # <<>>
  /\ cos.region # <<>>
  /\ cos.secretId # <<>>
  /\ cos.secretKey # <<>>

\* uploadImage's result for a successful PUT
NewUrl(url, cos) ==
  LET key == <<"obsidian/", "ts", "_", url[Len(url)]>>
      cleanDomain == IF EndsWith(cos.domain, "/")
                     THEN Slice(cos.domain, 0, Len(cos.domain) - 1)
                     ELSE cos.domain
  IN IF cos.domain # <<>>
     THEN cleanDomain \o <<"/">> \o key
     ELSE <<"http", "s://">> \o StandardDomain(cos) \o <<"/">> \o key

\* The uploads started by the loop over the matches: one pending result for
\* every match that shouldUpload lets through. wasFailed is history: the
\* URL was in failedUrls when its upload was started.
RECURSIVE StartUploads(_, _, _)
StartUploads(matches, cos, failed) ==
  IF matches = <<>> THEN <<>>
  ELSE (IF shouldUpload(Head(matches).url, cos, failed)
        THEN <<[match |-> Head(matches), state |-> "pending", newUrl |-> <<>>,
                wasFailed |-> Head(matches).url \in failed]>>
        ELSE <<>>)
       \o StartUploads(Tail(matches), cos, failed)

\* results.sort((a, b) => b.match.start - a.match.start): stable, descending
RECURSIVE InsertDesc(_, _)
InsertDesc(sorted, r) ==
  IF sorted = <<>> THEN <<r>>
  ELSE IF r.match.start > Head(sorted).match.start THEN <<r>> \o sorted
  ELSE <<Head(sorted)>> \o InsertDesc(Tail(sorted), r)

RECURSIVE SortDesc(_)
SortDesc(results) ==
  IF results = <<>> THEN <<>>
  ELSE InsertDesc(SortDesc(SubSeq(results, 1, Len(results) - 1)), results[Len(results)])

\* mutant: a candidate without a replacement ends the loop
RECURSIVE ApplyUploadsUntilFailure(_, _, _)
ApplyUploadsUntilFailure(c, results, idx) ==
  IF results = <<>> THEN [ok |-> TRUE, content |-> c, offset |-> idx]
  ELSE IF Head(results).state # "ok" THEN [ok |-> TRUE, content |-> c, offset |-> idx]
  ELSE LET r == update(c, Head(results).match.urlStart, Head(results).match.urlEnd,
                       Head(results).newUrl, idx)
       IN IF r.ok THEN ApplyUploadsUntilFailure(r.content, Tail(results), r.offset) ELSE r

\* for (const { match, newUrl } of results) if (newUrl) index = content.update(...)
RECURSIVE ApplyUploads(_, _, _)
ApplyUploads(c, results, idx) ==
  IF results = <<>> THEN [ok |-> TRUE, content |-> c, offset |-> idx]
  ELSE IF Head(results).state # "ok" THEN ApplyUploads(c, Tail(results), idx)
  ELSE LET r == update(c, Head(results).match.urlStart, Head(results).match.urlEnd,
                       Head(results).newUrl, idx)
       IN IF r.ok THEN ApplyUploads(r.content, Tail(results), r.offset) ELSE r

(***************************************************************************)
(* The list passes and the line/offset converter. content.match runs the   *)
(* pattern against original, line by line, and yields the span of the      *)
(* first capture group of every match in document order (spec.md 4.1).     *)
(***************************************************************************)
ListMarkers == {"-", "*", "+"}

\* the offset at which the i-th line (1-based) of lines starts
LineStart(lines, i) == SumSeq([j \in 1..(i - 1) |-> Len(lines[j]) + 1])

\* REGEXP_UNORDERED_LIST_ITEMS_WITH_EXTRA_SPACES on one line: the span of the
\* extra spaces (capture group 1) within the line
ExtraSpaces(line) ==
  LET i == RunLen(line, 0, Whitespace)
      extra == RunLen(line, i + 2, Whitespace)
  IN IF /\ Len(line) >= i + 2
        /\ line[i + 1] \in ListMarkers
        /\ line[i + 2] \in Whitespace
        /\ extra >= 1
     THEN [ok |-> TRUE, start |-> i + 2, end |-> i + 2 + extra]
     ELSE [ok |-> FALSE, start |-> 0, end |-> 0]

\* REGEXP_EMPTY_LIST_ITEMS_WITHOUT_TRAILING_SPACES on one line: capture
\* group 1 is the whole line
EmptyListItem(line) ==
  LET i == RunLen(line, 0, Whitespace)
      w == RunLen(line, i + 1, Whitespace)
      d == RunLen(line, i, {DigitChars[k] : k \in 1..Len(DigitChars)})
      bullet == Len(line) = i + 1 /\ line[i + 1] \in ListMarkers
      task == /\ Len(line) = i + 1 + w + 3
              /\ line[i + 1] \in ListMarkers
              /\ w >= 1
              /\ line[i + 1 + w + 1] = "["
              /\ line[i + 1 + w + 2] # NL
              /\ line[i + 1 + w + 3] = "]"
      ordered == d >= 1 /\ Len(line) = i + d + 1 /\ line[i + d + 1] = "."
  IN IF bullet \/ task \/ ordered
     THEN [ok |-> TRUE, start |-> 0, end |-> Len(line)]
     ELSE [ok |-> FALSE, start |-> 0, end |-> 0]

\* content.match(pattern): the capture spans in original coordinates
SpansOf(lines, found) ==
  LET all == [i \in 1..Len(lines) |->
                [ok |-> found[i].ok,
                 start |-> LineStart(lines, i) + found[i].start,
                 end |-> LineStart(lines, i) + found[i].end,
                 text |-> <<>>]]
  IN SelectSeq(all, LAMBDA m : m.ok)

matchExtraSpaces(c) ==
  SpansOf(Split(c.original), [i \in 1..Len(Split(c.original)) |-> ExtraSpaces(Split(c.original)[i])])

matchEmptyListItems(c) ==
  SpansOf(Split(c.original), [i \in 1..Len(Split(c.original)) |-> EmptyListItem(Split(c.original)[i])])

removeExtraSpaces(c, offset) == ReplayAll("delete", c, matchExtraSpaces(c), offset)

addTrailingSpaces(c, offset) == ReplayAll("insert", c, matchEmptyListItems(c), offset)

\* positionToOffset({line, ch}) on current: lines and columns count from 0
positionToOffset(c, pos) == LineStart(Split(c.current), pos.line + 1) + pos.ch

\* offsetToPosition(offset) on current
offsetToPosition(c, offset) ==
  LET lines == Split(c.current)
      l == CHOOSE i \in 1..Len(lines) :
             /\ LineStart(lines, i) <= offset
             /\ \A j \in 1..Len(lines) : LineStart(lines, j) <= offset => j <= i
  IN [line |-> l - 1, ch |-> offset - LineStart(lines, l)]

(***************************************************************************)
(* The format operations of src/src/formatter.ts.                          *)
(***************************************************************************)
Ok(c, offset) == [ok |-> TRUE, content |-> c, offset |-> offset]

\* if (this.settings.x) offset = this.pass(content, offset), for each pass: a
\* pass that throws ends the operation
RemoveExtraSpacesStep(r, s) ==
  IF r.ok /\ s.removeExtraSpaces THEN removeExtraSpaces(r.content, r.offset) ELSE r

AddTrailingSpacesStep(r, s) ==
  IF r.ok /\ s.addTrailingSpaces THEN addTrailingSpaces(r.content, r.offset) ELSE r

AdjustHeaderLevelsStep(r, s) ==
  IF r.ok /\ s.headerStartLevel > 1
  THEN adjustHeaderLevels(r.content, s.headerStartLevel, r.offset)
  ELSE r

AddHeaderNumberingStep(r, s) ==
  IF r.ok /\ s.autoNumbering THEN addHeaderNumbering(r.content, r.offset) ELSE r

\* the passes of formatFile and formatContent after the formatter's output
\* replaced current
Passes(c, offset, s) ==
  AddHeaderNumberingStep(
    AdjustHeaderLevelsStep(
      AddTrailingSpacesStep(
        RemoveExtraSpacesStep(Ok(c, offset), s), s), s), s)

\* the passes of formatSelection: called without an offset
SelectionPasses(c, s) ==
  AddTrailingSpacesStep(RemoveExtraSpacesStep(Ok(c, NoTracking), s), s)

\* The replacements a pass plans on buffer c, in document order: the spans
\* of its matches (removeExtraSpaces deletes them, addTrailingSpaces inserts a
\* space at their end) or the edits of its scan of current.
PlannedEdits(pass, c, s) ==
  IF pass = "removeExtraSpaces"
  THEN [i \in 1..Len(matchExtraSpaces(c)) |->
          [start |-> matchExtraSpaces(c)[i].start, end |-> matchExtraSpaces(c)[i].end,
           text |-> <<>>]]
  ELSE IF pass = "addTrailingSpaces"
  THEN [i \in 1..Len(matchEmptyListItems(c)) |->
          [start |-> matchEmptyListItems(c)[i].end, end |-> matchEmptyListItems(c)[i].end,
           text |-> <<" ">>]]
  ELSE IF pass = "adjustHeaderLevels"
  THEN IF ~HasHeaderScan(Split(c.current), 1, FALSE)
          \/ s.headerStartLevel = MinLevelScan(Split(c.current), 1, FALSE, MinLevelInit)
       THEN <<>>
       ELSE LevelEditsScan(Split(c.current), 1, FALSE, 0,
                           s.headerStartLevel
                             - MinLevelScan(Split(c.current), 1, FALSE, MinLevelInit))
  ELSE IF MinLevelScan(Split(c.current), 1, FALSE, MinLevelInit) = MinLevelInit
       THEN <<>>
       ELSE NumberingScan(Split(c.current), 1, FALSE, 0,
                          MinLevelScan(Split(c.current), 1, FALSE, MinLevelInit),
                          NoEdits).edits

\* this.pass(content, offset)
RunPass(pass, c, offset, s) ==
  IF pass = "removeExtraSpaces" THEN removeExtraSpaces(c, offset)
  ELSE IF pass = "addTrailingSpaces" THEN addTrailingSpaces(c, offset)
  ELSE IF pass = "adjustHeaderLevels" THEN adjustHeaderLevels(c, s.headerStartLevel, offset)
  ELSE addHeaderNumbering(c, offset)

\* if (this.settings.x)
PassEnabled(pass, s) ==
  IF pass = "removeExtraSpaces" THEN s.removeExtraSpaces
  ELSE IF pass = "addTrailingSpaces" THEN s.addTrailingSpaces
  ELSE IF pass = "adjustHeaderLevels" THEN s.headerStartLevel > 1
  ELSE s.autoNumbering

FilePasses ==
  <<"removeExtraSpaces", "addTrailingSpaces", "adjustHeaderLevels", "addHeaderNumbering">>

\* History of the passes of one operation: for each pass that ran, the text
\* it started from, the replacements it planned, the replacements it would
\* plan if its spans were taken in that text, and the text it left.
PassRecord(pass, c, r, s) ==
  [pass |-> pass, ok |-> r.ok, before |-> c.current, edits |-> PlannedEdits(pass, c, s),
   frame |-> PlannedEdits(pass, NewMagicString(c.current), s),
   after |-> r.content.current]

RECURSIVE PassTrace(_, _, _, _)
PassTraceNext(passes, c, r, s) ==
  <<PassRecord(Head(passes), c, r, s)>>
    \o (IF r.ok THEN PassTrace(Tail(passes), r.content, r.offset, s) ELSE <<>>)

PassTrace(passes, c, offset, s) ==
  IF passes = <<>> THEN <<>>
  ELSE IF ~PassEnabled(Head(passes), s) THEN PassTrace(Tail(passes), c, offset, s)
  ELSE PassTraceNext(passes, c, RunPass(Head(passes), c, offset, s), s)

Reverse(seq) == [i \in 1..Len(seq) |-> seq[Len(seq) + 1 - i]]

\* the replacements uploadImages applies, in document order
UploadEdits(results) ==
  LET done == SelectSeq(Reverse(SortDesc(results)), LAMBDA r : r.state = "ok")
  IN [i \in 1..Len(done) |->
        [start |-> done[i].match.urlStart, end |-> done[i].match.urlEnd,
         text |-> done[i].newUrl]]

UploadRecord(c, results, r) ==
  [pass |-> "uploadImages", ok |-> r.ok, before |-> c.current,
   edits |-> UploadEdits(results), frame |-> UploadEdits(results),
   after |-> r.content.current]

\* mutant: the two branches exchanged
ReconcileNewlineSwapped(c) ==
  IF EndsWith(c.original, NL) /\ ~EndsWith(c.current, NL) THEN deleteLast(c)
  ELSE IF ~EndsWith(c.original, NL) /\ EndsWith(c.current, NL) THEN append(c, <<NL>>)
  ELSE c

\* isOriginalHasNewLine / isModifiedHasNewLine of formatSelection
ReconcileNewline(c) ==
  IF EndsWith(c.original, NL) /\ ~EndsWith(c.current, NL) THEN append(c, <<NL>>)
  ELSE IF ~EndsWith(c.original, NL) /\ EndsWith(c.current, NL) THEN deleteLast(c)
  ELSE c

\* mutant: the cursor is read in every operation
InitialOffsetAlways(opKind, fast, c, cursor) == positionToOffset(c, cursor)

\* let offset = -1; if (!this.shouldUseFastMode(file)) offset = positionToOffset(cursor)
InitialOffset(opKind, fast, c, cursor) ==
  IF opKind = "content" /\ ~fast THEN positionToOffset(c, cursor) ELSE NoTracking

\* mutant: the buffer is written back whether or not the passes completed
CommitAnyway(opKind, r) ==
  IF opKind = "file" THEN <<[call |-> "modify", arg |-> r.content.current]>>
  ELSE IF opKind = "selection"
       THEN <<[call |-> "replaceSelection", arg |-> r.content.current]>>
  ELSE <<[call |-> "setValue", arg |-> r.content.current],
         [call |-> "scrollTo", arg |-> <<>>]>>
       \o (IF r.offset # NoTracking
           THEN <<[call |-> "setCursor", arg |-> offsetToPosition(r.content, r.offset)]>>
           ELSE <<>>)

\* The calls on the vault / the editor that end the operation: none when a
\* pass threw, none when the buffer is not modified.
Commit(opKind, r) ==
  IF ~r.ok \/ ~isModified(r.content) THEN <<>>
  ELSE IF opKind = "file" THEN <<[call |-> "modify", arg |-> r.content.current]>>
  ELSE IF opKind = "selection"
       THEN <<[call |-> "replaceSelection", arg |-> r.content.current]>>
  ELSE <<[call |-> "setValue", arg |-> r.content.current],
         [call |-> "scrollTo", arg |-> <<>>]>>
       \o (IF r.offset # NoTracking
           THEN <<[call |-> "setCursor", arg |-> offsetToPosition(r.content, r.offset)]>>
           ELSE <<>>)

(***************************************************************************)
(* Inputs of the replay specification.                                     *)
(***************************************************************************)
TextAlphabet == <<"a", "b", "c", "d", "e", "f">>
RepAlphabet == <<"x", "y", "z", "w">>

Texts == {SubSeq(TextAlphabet, 1, n) : n \in 0..MaxLen}
Reps == {SubSeq(RepAlphabet, 1, n) : n \in 0..MaxRep}

EditsOf(k, n) ==
  IF k = "delete"
  THEN {x \in [start : 0..n, end : 0..n, text : {<<>>}] : x.start < x.end}
  ELSE IF k = "insert"
  THEN {[start |-> s, end |-> s, text |-> <<" ">>] : s \in 0..n}
  ELSE {x \in [start : 0..n, end : 0..n, text : Reps] : x.start <= x.end}

\* pairwise non-overlapping, in document order
Ordered(es) == \A i \in 1..(Len(es) - 1) : es[i].end <= es[i + 1].start

EditLists(k, n) ==
  UNION {{es \in [1..m -> EditsOf(k, n)] : Ordered(es)} : m \in 0..MaxEdits}

NoEdit == [start |-> 0, end |-> 0, text |-> <<>>]

\* getDefaultSettings().tencentCos: every field the empty string
NoCos ==
  [secretId |-> <<>>, secretKey |-> <<>>, bucket |-> <<>>, region |-> <<>>,
   domain |-> <<>>]

\* getDefaultSettings()
DefaultSettings ==
  [removeExtraSpaces |-> FALSE, addTrailingSpaces |-> FALSE,
   headerStartLevel |-> 1, autoNumbering |-> FALSE, tencentCos |-> NoCos]

\* No uploadImages call, no format operation.
CallIds == {"A", "B"}

IdleCall ==
  [pc |-> "idle", content |-> NewMagicString(<<>>), index |-> NoTracking,
   results |-> <<>>]

NoTrace ==
  [fastAtCursor |-> FALSE, fastAtFormat |-> FALSE, formatted |-> <<>>,
   reconciled |-> <<>>, stage |-> "none", failure |-> "none", passes |-> <<>>]

NoUploader ==
  /\ calls = [c \in CallIds |-> IdleCall]
  /\ failedUrls = {}
  /\ candidates = <<>>

NoOperation ==
  /\ op = "none"
  /\ uploads = <<>>
  /\ env = [fastMode |-> FALSE, text |-> <<>>, cursor |-> [line |-> 0, ch |-> 0]]
  /\ effects = <<>>
  /\ trace = NoTrace
  /\ writes = <<>>

(***************************************************************************)
(* SpecReplay: one pass over a fresh buffer.                               *)
(***************************************************************************)
InitReplay ==
  /\ pc = "replay"
  /\ kind \in {"delete", "insert", "update"}
  /\ \E t \in Texts :
       /\ content = NewMagicString(t)
       /\ scanned = t
       /\ edits \in EditLists(kind, Len(t))
       /\ index \in NoTracking..Len(t)
  /\ planned = edits
  /\ index0 = index
  /\ lastEdit = NoEdit
  /\ lastIndex = NoTracking
  /\ settings = DefaultSettings
  /\ NoUploader
  /\ NoOperation

ReplayStep ==
  /\ pc = "replay"
  /\ edits # <<>>
  /\ LET i == PickNext(edits)
         r == ApplyEdit(kind, content, edits[i], index)
     IN /\ lastEdit' = edits[i]
        /\ lastIndex' = index
        /\ edits' = RemoveAt(edits, i)
        /\ IF r.ok
           THEN /\ content' = r.content
                /\ index' = r.offset
                /\ pc' = IF edits' = <<>> THEN "replayed" ELSE "replay"
           ELSE /\ pc' = "failed"
                /\ UNCHANGED <<content, index>>
  /\ UNCHANGED <<kind, planned, scanned, index0, envVars>>

ReplayNothing ==
  /\ pc = "replay"
  /\ edits = <<>>
  /\ pc' = "replayed"
  /\ UNCHANGED <<content, index, scanned, index0, replayVars, envVars>>

NextReplay == ReplayStep \/ ReplayNothing

SpecReplay == InitReplay /\ [][NextReplay]_vars

(***************************************************************************)
(* SpecHeaders: one heading pass over a fresh buffer holding a document    *)
(* of up to MaxLines lines.                                                *)
(***************************************************************************)
FenceLine == <<" ", BackTick, BackTick, BackTick, "t">>
HeadingLine(d) == Repeat("#", d) \o <<" ", "t">>
NumberedLine == <<" ", "#", " ", "1", ".", " ", "t">>

\* a fence, headings of depth 1 (indented, numbered), 5 and 6, plain text
LineKinds ==
  {FenceLine, NumberedLine, HeadingLine(MaxHeaderLevel - 1),
   HeadingLine(MaxHeaderLevel), <<"t">>}

Docs == UNION {{JoinLines(ls) : ls \in [1..m -> LineKinds]} : m \in 0..MaxLines}

NoReplay ==
  /\ kind = "update"
  /\ edits = <<>>
  /\ planned = <<>>
  /\ lastEdit = NoEdit
  /\ lastIndex = NoTracking

InitHeaders ==
  /\ pc = "start"
  /\ \E doc \in Docs :
       /\ content = NewMagicString(doc)
       /\ scanned = doc
       /\ index \in {NoTracking, Len(doc) \div 2}
  /\ index0 = index
  /\ \E l \in 1..MaxStartLevel : settings = [DefaultSettings EXCEPT !.headerStartLevel = l]
  /\ NoReplay
  /\ NoUploader
  /\ NoOperation

PassResult(r, done) ==
  /\ IF r.ok
     THEN /\ content' = r.content
          /\ index' = r.offset
          /\ pc' = done
     ELSE /\ pc' = "failed"
          /\ UNCHANGED <<content, index>>
  /\ UNCHANGED <<scanned, index0, replayVars, envVars>>

AdjustHeaderLevels ==
  /\ pc = "start"
  /\ PassResult(adjustHeaderLevels(content, settings.headerStartLevel, index), "adjusted")

AddHeaderNumbering ==
  /\ pc = "start"
  /\ PassResult(addHeaderNumbering(content, index), "numbered")

NextHeaders == AdjustHeaderLevels \/ AddHeaderNumbering

SpecHeaders == InitHeaders /\ [][NextHeaders]_vars

(***************************************************************************)
(* SpecNumbering: addHeaderNumbering over a fresh buffer holding up to     *)
(* MaxHeadings headings, with or without a fenced block after the first.   *)
(***************************************************************************)
DepthSeqs == UNION {[1..m -> 1..MaxDepth] : m \in 0..MaxHeadings}

FencedBlock == <<FenceLine, HeadingLine(1), FenceLine>>

HeadingDoc(ds, withFence) ==
  LET hs == [i \in 1..Len(ds) |-> HeadingLine(ds[i])]
  IN JoinLines(IF withFence /\ Len(ds) >= 1
               THEN <<hs[1]>> \o FencedBlock \o Tail(hs)
               ELSE hs)

InitNumbering ==
  /\ pc = "start"
  /\ \E ds \in DepthSeqs : \E withFence \in BOOLEAN :
       /\ content = NewMagicString(HeadingDoc(ds, withFence))
       /\ scanned = HeadingDoc(ds, withFence)
  /\ index = Len(scanned)
  /\ index0 = index
  /\ settings = [DefaultSettings EXCEPT !.autoNumbering = TRUE]
  /\ NoReplay
  /\ NoUploader
  /\ NoOperation

NextNumbering == AddHeaderNumbering

SpecNumbering == InitNumbering /\ [][NextNumbering]_vars

(***************************************************************************)
(* Claims about one pass (SpecReplay).                                     *)
(***************************************************************************)
\* The scanned text with every edit spliced in, built left to right in one
\* pass: the text before the edit, its replacement, and on from its end.
RECURSIVE SpliceFrom(_, _, _)
SpliceFrom(text, es, pos) ==
  IF es = <<>> THEN Slice(text, pos, Len(text))
  ELSE Slice(text, pos, Head(es).start) \o Head(es).text
         \o SpliceFrom(text, Tail(es), Head(es).end)

SpliceAll(text, es) == SpliceFrom(text, es, 0)

\* C1: once a pass has replayed its non-overlapping edits from the last to
\* the first, current is the scanned text with all replacements spliced in
\* by a single left-to-right pass.
C1_ReverseReplayIsSplice ==
  pc = "replayed" => content.current = SpliceAll(scanned, planned)

C1_Witness ==
  /\ pc = "replayed"
  /\ Len(planned) >= 2
  /\ planned[1].start < planned[1].end
  /\ Len(planned[1].text) # planned[1].end - planned[1].start
  /\ content.current # scanned

\* C2: a single call with tracked offset T >= 0 and edit [s,e) -> R returns
\* T when T < s, T + len(R) - (e - s) when T >= e, and s when s <= T < e.
C2_SingleEditRemap ==
  (Len(edits) < Len(planned) /\ pc # "failed" /\ lastIndex >= 0) =>
     LET s == lastEdit.start
         e == lastEdit.end
         T == lastIndex
     IN /\ (T < s => index = T)
        /\ (T >= e => index = T + Len(lastEdit.text) - (e - s))
        /\ (s <= T /\ T < e => index = s)

C2_Witness ==
  /\ Len(edits) < Len(planned)
  /\ pc # "failed"
  /\ lastEdit.start < lastIndex
  /\ lastIndex < lastEdit.end
  /\ index = lastEdit.start
  /\ index # lastIndex

\* Sum of the length deltas of the edits that end at or before T.
RECURSIVE DeltaBefore(_, _)
DeltaBefore(es, T) ==
  IF es = <<>> THEN 0
  ELSE (IF Head(es).end <= T THEN Delta(Head(es)) ELSE 0) + DeltaBefore(Tail(es), T)

\* Where T lands when all edits are applied to the scanned text at once.
MapOneShot(es, T) ==
  IF \E i \in 1..Len(es) : es[i].start <= T /\ T < es[i].end
  THEN LET i == CHOOSE j \in 1..Len(es) : es[j].start <= T /\ T < es[j].end
       IN es[i].start + SumSeq([j \in 1..(i - 1) |-> Delta(es[j])])
  ELSE T + DeltaBefore(es, T)

\* C10: a tracked offset T >= 0 threaded through the back-to-front replay
\* ends where a one-shot application of all edits puts T, inside the text.
C10_ThreadedOffsetIsOneShot ==
  (pc = "replayed" /\ index0 >= 0) =>
     /\ index = MapOneShot(planned, index0)
     /\ 0 <= index
     /\ index <= Len(content.current)

C10_Witness ==
  /\ pc = "replayed"
  /\ Len(planned) >= 2
  /\ index0 >= planned[2].end
  /\ Delta(planned[1]) # 0
  /\ Delta(planned[2]) # 0
  /\ index = index0 + Delta(planned[1]) + Delta(planned[2])
  /\ index # index0

(***************************************************************************)
(* Claims about the heading passes (SpecHeaders, SpecNumbering).           *)
(***************************************************************************)
\* Line i lies inside a fenced block: an odd number of fence lines precede it.
InsideFence(lines, i) ==
  /\ ~IsFence(lines[i])
  /\ Cardinality({j \in 1..(i - 1) : IsFence(lines[j])}) % 2 = 1

\* The indices of the heading lines outside fenced blocks.
OutsideHeadings(lines) ==
  {i \in 1..Len(lines) :
     HeaderMatch(lines[i]).ok /\ ~IsFence(lines[i]) /\ ~InsideFence(lines, i)}

\* The least number of hashes among them.
MinDepth(lines) == MinOf({HeaderMatch(lines[i]).hashes : i \in OutsideHeadings(lines)})

\* The members of a set of indices, ascending.
RECURSIVE Ascending(_)
Ascending(S) ==
  IF S = {} THEN <<>>
  ELSE LET m == MinOf(S)
       IN <<m>> \o Ascending(S \ {m})

\* The relative depths depth - minLevel + 1 of the headings outside fences.
RelDepths(lines) ==
  LET idx == Ascending(OutsideHeadings(lines))
      hashes == [k \in 1..Len(idx) |-> HeaderMatch(lines[idx[k]]).hashes]
      minLevel == MinOf({hashes[k] : k \in 1..Len(idx)})
  IN [k \in 1..Len(idx) |-> hashes[k] - minLevel + 1]

\* The counter-vector rule: extend the vector with 1s up to length d, or cut
\* it to length d and increment its last slot; dot-joined, with a trailing
\* dot only when d = 1.
RECURSIVE RuleNumbers(_, _)
RuleNumbers(ds, vec) ==
  IF ds = <<>> THEN <<>>
  ELSE LET d == Head(ds)
           v == IF d > Len(vec)
                THEN [i \in 1..d |-> IF i <= Len(vec) THEN vec[i] ELSE 1]
                ELSE [i \in 1..d |-> IF i = d THEN vec[i] + 1 ELSE vec[i]]
           number == JoinCounters(v) \o (IF d = 1 THEN <<".">> ELSE <<>>)
       IN <<number>> \o RuleNumbers(Tail(ds), v)

\* A heading line with number num put in front of its text, or in place of
\* the dotted number its text starts with.
WithNumber(line, num) ==
  LET m == HeaderMatch(line)
      head == Slice(line, 0, m.indent + m.hashes + m.space)
      tm == NumberMatch(m.text)
  IN IF tm.ok
     THEN head \o num \o Slice(m.text, Len(tm.existingNum), Len(m.text))
     ELSE head \o num \o <<" ">> \o m.text

NumberedText(lines, nums) ==
  LET out == OutsideHeadings(lines)
  IN JoinLines([i \in 1..Len(lines) |->
        IF i \in out
        THEN WithNumber(lines[i], nums[Cardinality({j \in out : j <= i})])
        ELSE lines[i]])

ExampleDepths == <<1, 2, 2, 1, 2, 3>>
ExampleNumbers ==
  << <<"1", ".">>, <<"1", ".", "1">>, <<"1", ".", "2">>,
     <<"2", ".">>, <<"2", ".", "1">>, <<"2", ".", "1", ".", "1">> >>

\* C4: the numbers addHeaderNumbering computes for the headings outside
\* fenced blocks follow the counter-vector rule on the relative depths, the
\* text gets exactly these numbers, and depths 1,2,2,1,2,3 give
\* 1. 1.1 1.2 2. 2.1 2.1.1
C4_CounterVectorRule ==
  pc = "numbered" =>
     LET lines == Split(scanned)
         ds == RelDepths(lines)
         nums == NumberingOf(lines)
     IN /\ nums = RuleNumbers(ds, <<>>)
        /\ content.current = NumberedText(lines, nums)
        /\ (ds = ExampleDepths => nums = ExampleNumbers)

C4_Witness ==
  /\ pc = "numbered"
  /\ RelDepths(Split(scanned)) = ExampleDepths
  /\ Len(Split(scanned)) > Len(ExampleDepths)
  /\ content.current = NumberedText(Split(scanned), ExampleNumbers)
  /\ content.current # scanned

\* C5: a heading-looking line inside a fenced block is left as it is by
\* adjustHeaderLevels and by addHeaderNumbering, and it counts neither for
\* the minimum level nor for the numbering.
C5_FencedHeadingsUntouched ==
  pc \in {"adjusted", "numbered"} =>
     LET before == Split(scanned)
         after == Split(content.current)
     IN /\ Len(after) = Len(before)
        /\ \A i \in 1..Len(before) :
             (InsideFence(before, i) /\ HeaderMatch(before[i]).ok) => after[i] = before[i]
        /\ MinLevelScan(before, 1, FALSE, MinLevelInit) =
             (IF OutsideHeadings(before) = {} THEN MinLevelInit ELSE MinDepth(before))
        /\ NumberingOf(before) = RuleNumbers(RelDepths(before), <<>>)

C5_Witness ==
  /\ pc \in {"adjusted", "numbered"}
  /\ content.current # scanned
  /\ LET before == Split(scanned)
     IN /\ \E i \in 1..Len(before) :
             /\ InsideFence(before, i)
             /\ HeaderMatch(before[i]).ok
             /\ \E j \in OutsideHeadings(before) :
                  /\ j > i
                  /\ HeaderMatch(before[j]).hashes > HeaderMatch(before[i]).hashes
        /\ Cardinality({j \in 1..Len(before) : IsFence(before[j])}) >= 2

\* A heading line with its run of hashes made n long.
WithLevel(line, n) ==
  LET m == HeaderMatch(line)
  IN Slice(line, 0, m.indent) \o Repeat("#", n)
       \o Slice(line, m.indent + m.hashes, Len(line))

\* C6: adjustHeaderLevels rewrites the hashes of a heading of depth L outside
\* fences to L + shift exactly when shift # 0 and 1 <= L + shift <= 6, with
\* shift = headerStartLevel - minimum depth, and changes nothing else; with
\* shift = 0 or no heading it applies no edit and returns the offset as given.
C6_LevelShift ==
  pc = "adjusted" =>
     LET lines == Split(scanned)
         out == OutsideHeadings(lines)
         shift == IF out = {} THEN 0 ELSE settings.headerStartLevel - MinDepth(lines)
     IN IF out = {} \/ shift = 0
        THEN content.current = scanned /\ content.log = <<>> /\ index = index0
        ELSE content.current = JoinLines([i \in 1..Len(lines) |->
               LET L == HeaderMatch(lines[i]).hashes
               IN IF i \in out /\ 1 <= L + shift /\ L + shift <= 6
                  THEN WithLevel(lines[i], L + shift)
                  ELSE lines[i]])

C6_Witness ==
  /\ pc = "adjusted"
  /\ content.current # scanned
  /\ LET lines == Split(scanned)
     IN \E i \in OutsideHeadings(lines) :
          /\ HeaderMatch(lines[i]).hashes = MaxHeaderLevel
          /\ settings.headerStartLevel > MinDepth(lines)
          /\ Split(content.current)[i] = lines[i]

C6_WitnessNoShift ==
  /\ pc = "adjusted"
  /\ OutsideHeadings(Split(scanned)) # {}
  /\ settings.headerStartLevel = MinDepth(Split(scanned))
  /\ index0 > 0

\* The number of hashes of heading line i of lines.
Depth(lines, i) == HeaderMatch(lines[i]).hashes

\* adjustHeaderLevels kept the strict depth order of the pairs of headings
\* outside fenced blocks; with withinLimits, of the pairs whose shifted
\* depths both lie within 1..6.
KeepsOrder(withinLimits) ==
  pc = "adjusted" =>
     LET before == Split(scanned)
         after == Split(content.current)
         out == OutsideHeadings(before)
         shift == IF out = {} THEN 0 ELSE settings.headerStartLevel - MinDepth(before)
     IN \A a \in out : \A b \in out :
          /\ Depth(before, a) > Depth(before, b)
          /\ withinLimits =>
               /\ Depth(before, a) + shift \in 1..MaxHeaderLevel
               /\ Depth(before, b) + shift \in 1..MaxHeaderLevel
          => Depth(after, a) > Depth(after, b)

\* C14 as stated: a heading with strictly more hashes than another before
\* adjustHeaderLevels has strictly more hashes after it, for any two headings
\* outside fenced blocks.
C14_NestingOrderAsStated == KeepsOrder(FALSE)

\* C14: a heading with strictly more hashes than another before
\* adjustHeaderLevels has strictly more hashes after it, for any two headings
\* outside fenced blocks whose shifted depths both lie within 1..6.
C14_NestingOrder == KeepsOrder(TRUE)

C14_Witness ==
  /\ pc = "adjusted"
  /\ content.current # scanned
  /\ LET before == Split(scanned)
         out == OutsideHeadings(before)
     IN /\ out # {}
        /\ \E a \in out : \E b \in out : \E c \in out :
             LET shift == settings.headerStartLevel - MinDepth(before)
             IN /\ Depth(before, a) > Depth(before, b)
                /\ Depth(before, a) + shift \in 1..MaxHeaderLevel
                /\ Depth(before, b) + shift \in 1..MaxHeaderLevel
                /\ Depth(before, c) + shift > MaxHeaderLevel
                /\ Depth(Split(content.current), a) = Depth(before, a) + shift

(***************************************************************************)
(* SpecUpload: uploadImages calls on one ImageUploader, overlapping in     *)
(* time. A call takes a buffer holding up to MaxImages image references.   *)
(***************************************************************************)
MaxImages == 1

ExternalUrl == <<"http", "://", "x", "/", "a">>
CustomDomainUrl == <<"http", "://", "cdn", "/", "a">>
StandardDomainUrl == <<"http", "s://", "b", ".cos.", "r", ".myqcloud.com", "/", "a">>
LocalUrl == <<"cdn", "/", "a">>
\* CustomDomainUrl is an ordinary external URL when no custom domain is set
Urls == {CustomDomainUrl, StandardDomainUrl, LocalUrl}

MdImage(url) == <<"!", "[", "alt", "]", "(">> \o url \o <<")">>
ImgTag(url) == <<"<img", " ", "src=", Quote>> \o url \o <<Quote, ">">>

Images == {MdImage(u) : u \in Urls} \cup {ImgTag(CustomDomainUrl)}

UploadDocs == {JoinLines(imgs) : imgs \in UNION {[1..m -> Images] : m \in 0..MaxImages}}

\* the buffers handed to uploadImages, each with findImageMatches(content.original)
UploadInputs == {[doc |-> d, matches |-> findImageMatches(d)] : d \in UploadDocs}

Cos(domain) ==
  [secretId |-> <<"id">>, secretKey |-> <<"key">>, bucket |-> <<"b">>,
   region |-> <<"r">>, domain |-> domain]

CosSettings == {NoCos, Cos(<<>>), Cos(<<"cdn">>)}

NoPass ==
  /\ pc = "none"
  /\ content = NewMagicString(<<>>)
  /\ index = NoTracking
  /\ scanned = <<>>
  /\ index0 = NoTracking

InitUpload ==
  /\ NoPass
  /\ NoReplay
  /\ NoOperation
  /\ NoUploader
  /\ \E cos \in CosSettings : settings = [DefaultSettings EXCEPT !.tencentCos = cos]

Pending(results) == {i \in 1..Len(results) : results[i].state = "pending"}

\* uploadImages up to await Promise.all(uploads)
UploadImagesBegin(c) ==
  /\ calls[c].pc # "awaiting"
  /\ \E in \in UploadInputs :
       IF ~CosReady(settings.tencentCos) \/ in.matches = <<>>
       THEN calls' = [calls EXCEPT ![c] =
                        [pc |-> "returned", content |-> NewMagicString(in.doc),
                         index |-> Len(in.doc), results |-> <<>>]]
       ELSE calls' = [calls EXCEPT ![c] =
                        [pc |-> "awaiting", content |-> NewMagicString(in.doc),
                         index |-> Len(in.doc),
                         results |-> StartUploads(in.matches, settings.tencentCos,
                                                  failedUrls)]]
  /\ UNCHANGED <<failedUrls, passVars, replayVars, settings, candidates, opVars>>

\* uploadImage returns the new URL
UploadSucceeds(c) ==
  /\ calls[c].pc = "awaiting"
  /\ \E i \in Pending(calls[c].results) :
       calls' = [calls EXCEPT ![c].results[i] =
                   [match |-> @.match, state |-> "ok", wasFailed |-> @.wasFailed,
                    newUrl |-> NewUrl(@.match.url, settings.tencentCos)]]
  /\ UNCHANGED <<failedUrls, passVars, replayVars, settings, candidates, opVars>>

\* uploadImage catches an error or sees a non-2xx status: failedUrls.add(url)
UploadFails(c) ==
  /\ calls[c].pc = "awaiting"
  /\ \E i \in Pending(calls[c].results) :
       /\ calls' = [calls EXCEPT ![c].results[i].state = "failed"]
       /\ failedUrls' = failedUrls \cup {calls[c].results[i].match.url}
  /\ UNCHANGED <<passVars, replayVars, settings, candidates, opVars>>

\* uploadImage cannot resolve a local path: null, and the URL is not marked
UploadUnresolved(c) ==
  /\ calls[c].pc = "awaiting"
  /\ \E i \in Pending(calls[c].results) :
       /\ ~StartsWith(calls[c].results[i].match.url, <<"http">>)
       /\ calls' = [calls EXCEPT ![c].results[i].state = "null"]
  /\ UNCHANGED <<failedUrls, passVars, replayVars, settings, candidates, opVars>>

\* uploadImages after await Promise.all(uploads)
UploadImagesReturn(c) ==
  /\ calls[c].pc = "awaiting"
  /\ Pending(calls[c].results) = {}
  /\ LET r == ApplyUploads(calls[c].content, SortDesc(calls[c].results), calls[c].index)
     IN calls' = [calls EXCEPT ![c] =
                    [pc |-> IF r.ok THEN "returned" ELSE "threw",
                     content |-> r.content, index |-> r.offset,
                     results |-> calls[c].results]]
  /\ UNCHANGED <<failedUrls, passVars, replayVars, settings, candidates, opVars>>

NextUpload ==
  \E c \in CallIds :
    \/ UploadImagesBegin(c)
    \/ UploadSucceeds(c)
    \/ UploadFails(c)
    \/ UploadUnresolved(c)
    \/ UploadImagesReturn(c)

SpecUpload == InitUpload /\ [][NextUpload]_vars

(***************************************************************************)
(* SpecMatches: findImageMatches over texts of up to MaxTags image          *)
(* references, one per line, in markdown and in HTML notation.             *)
(***************************************************************************)
MaxTags == 2

\* ![](url): match[1] || "" is the empty alt text
MdImageNoAlt(url) == <<"!", "[", "]", "(">> \o url \o <<")">>

\* <img alt="..." src="url">: an attribute before src
ImgTagWithAlt(alt, url) ==
  <<"<img", " ", "alt=", Quote>> \o alt \o <<Quote, " ", "src=", Quote>> \o url \o <<Quote, ">">>

MatchLines ==
  {MdImage(ExternalUrl), MdImage(LocalUrl), MdImageNoAlt(LocalUrl),
   ImgTag(ExternalUrl), ImgTag(LocalUrl),
   ImgTagWithAlt(<<"alt">>, LocalUrl), ImgTagWithAlt(LocalUrl, LocalUrl),
   <<"t">>}

MatchDocs == {JoinLines(ls) : ls \in UNION {[1..m -> MatchLines] : m \in 1..MaxTags}}

InitMatches ==
  /\ pc = "scan"
  /\ \E d \in MatchDocs : content = NewMagicString(d)
  /\ index = NoTracking
  /\ scanned = <<>>
  /\ index0 = NoTracking
  /\ NoReplay
  /\ NoOperation
  /\ NoUploader
  /\ settings = DefaultSettings

\* const matches = this.findImageMatches(content.original)
FindImageMatches ==
  /\ pc = "scan"
  /\ pc' = "matched"
  /\ candidates' = findImageMatches(content.original)
  /\ UNCHANGED <<content, index, scanned, index0, replayVars, settings, calls,
                 failedUrls, opVars>>

NextMatches == FindImageMatches

SpecMatches == InitMatches /\ [][NextMatches]_vars

(***************************************************************************)
(* SpecOp: one format operation from its start to its write-back. The      *)
(* pretty-printer is an opaque collaborator: it returns one of a few       *)
(* renderings of the text it is given, or throws.                          *)
(***************************************************************************)
MaxParts == 2

ListLine == <<"-", " ", " ", " ", "t">>
EmptyItemLine == <<"-">>
\* the image is a local path: its upload may succeed, fail or not resolve
OpLines == {MdImage(LocalUrl), ListLine, EmptyItemLine, HeadingLine(1)}

OpDocs ==
  {JoinLines(ls) \o nl : ls \in UNION {[1..m -> OpLines] : m \in 1..MaxParts},
                         nl \in {<<>>, <<NL>>}}

OpSettings ==
  {[DefaultSettings EXCEPT !.tencentCos = Cos(<<>>)],
   [DefaultSettings EXCEPT !.removeExtraSpaces = TRUE, !.addTrailingSpaces = TRUE],
   [DefaultSettings EXCEPT !.removeExtraSpaces = TRUE, !.addTrailingSpaces = TRUE,
                           !.headerStartLevel = 2, !.autoNumbering = TRUE,
                           !.tencentCos = Cos(<<"cdn">>)]}

\* every run of spaces collapsed to one space
RECURSIVE CollapseSpaces(_)
CollapseSpaces(text) ==
  IF Len(text) < 2 THEN text
  ELSE IF text[1] = " " /\ text[2] = " " THEN CollapseSpaces(Tail(text))
  ELSE <<text[1]>> \o CollapseSpaces(Tail(text))

\* what prettier.format / prettier.formatWithCursor may return for a text
PrettierOutputs(text) ==
  {text,
   CollapseSpaces(text),
   IF EndsWith(text, NL) THEN Slice(text, 0, Len(text) - 1) ELSE text \o <<NL>>}

\* result.cursorOffset of prettier.formatWithCursor
CursorOffsets(cursorOffset, formatted) ==
  IF cursorOffset = NoTracking THEN {NoTracking} ELSE {0, Len(formatted)}

InitOp ==
  /\ pc = "start"
  /\ op \in {"file", "content", "selection"}
  /\ settings \in OpSettings
  /\ \E doc \in OpDocs : \E fast \in BOOLEAN :
       /\ scanned = doc
       /\ env = [fastMode |-> fast, text |-> doc,
                 cursor |-> [line |-> 0, ch |-> Len(Split(doc)[1])]]
  /\ content = NewMagicString(<<>>)
  /\ index = NoTracking
  /\ index0 = NoTracking
  /\ uploads = <<>>
  /\ effects = <<>>
  /\ trace = NoTrace
  /\ writes = <<>>
  /\ NoReplay
  /\ NoUploader

\* The operation up to await uploadImages(...): the buffer is built from
\* the file / the editor / the selection, the offset is read, the uploads
\* are started.
Begin(opKind) ==
  /\ pc = "start"
  /\ op = opKind
  /\ LET buf == NewMagicString(env.text)
         cos == settings.tencentCos
         matches == findImageMatches(buf.original)
     IN /\ content' = buf
        /\ index' = InitialOffset(opKind, env.fastMode, buf, env.cursor)
        /\ uploads' = IF ~CosReady(cos) \/ matches = <<>> THEN <<>>
                       ELSE StartUploads(matches, cos, failedUrls)
  /\ index0' = index'
  /\ trace' = [trace EXCEPT !.fastAtCursor = env.fastMode, !.stage = "uploading"]
  /\ pc' = "uploading"
  /\ UNCHANGED <<scanned, replayVars, settings, candidates, calls, failedUrls, op, writes, env, effects>>

FormatFileBegin == Begin("file")

FormatContentBegin == Begin("content")

FormatSelectionBegin == Begin("selection")

OpUploadSucceeds ==
  /\ pc = "uploading"
  /\ \E i \in Pending(uploads) :
       uploads' = [uploads EXCEPT ![i] =
                     [match |-> @.match, state |-> "ok", wasFailed |-> @.wasFailed,
                      newUrl |-> NewUrl(@.match.url, settings.tencentCos)]]
  /\ UNCHANGED <<passVars, replayVars, settings, uploaderVars, op, writes, env, effects, trace>>

OpUploadFails ==
  /\ pc = "uploading"
  /\ \E i \in Pending(uploads) :
       /\ uploads' = [uploads EXCEPT ![i].state = "failed"]
       /\ failedUrls' = failedUrls \cup {uploads[i].match.url}
  /\ UNCHANGED <<passVars, replayVars, settings, candidates, calls, op, writes, env, effects, trace>>

OpUploadUnresolved ==
  /\ pc = "uploading"
  /\ \E i \in Pending(uploads) :
       /\ ~StartsWith(uploads[i].match.url, <<"http">>)
       /\ uploads' = [uploads EXCEPT ![i].state = "null"]
  /\ UNCHANGED <<passVars, replayVars, settings, uploaderVars, op, writes, env, effects, trace>>

\* the frontmatter key prettier-fast-mode is edited while the uploads are
\* awaited
ToggleFastMode ==
  /\ pc = "uploading"
  /\ Pending(uploads) # {}
  /\ env' = [env EXCEPT !.fastMode = ~@]
  /\ UNCHANGED <<passVars, replayVars, settings, uploaderVars, op, writes, uploads, effects, trace>>

\* uploadImages returns (its replacements applied) and the pretty-printer
\* is called: formatContent reads shouldUseFastMode a second time, and
\* trace.fastAtFormat is the branch it takes.
UploadsDone ==
  /\ pc = "uploading"
  /\ Pending(uploads) = {}
  /\ LET r == ApplyUploads(content, SortDesc(uploads), index)
     IN IF r.ok
        THEN /\ content' = r.content
             /\ index' = r.offset
             /\ pc' = "formatting"
             /\ trace' = [trace EXCEPT !.fastAtFormat = env.fastMode,
                                       !.stage = "formatting",
                                       !.passes = <<UploadRecord(content, uploads, r)>>]
        ELSE /\ pc' = "failed"
             /\ trace' = [trace EXCEPT !.failure = "span",
                                       !.passes = <<UploadRecord(content, uploads, r)>>]
             /\ UNCHANGED <<content, index>>
  /\ UNCHANGED <<scanned, index0, replayVars, settings, uploaderVars, op, writes, uploads, env,
                 effects>>

\* the pretty-printer throws
PrettierThrows ==
  /\ pc = "formatting"
  /\ pc' = "failed"
  /\ trace' = [trace EXCEPT !.failure = "prettier"]
  /\ UNCHANGED <<content, index, scanned, index0, replayVars, settings, uploaderVars,
                 op, writes, uploads, env, effects>>

\* The rest of the operation, from the formatter's output to the write-back.
Finish(r) ==
  /\ content' = r.content
  /\ index' = r.offset
  /\ effects' = Commit(op, r)
  /\ env' = IF effects' = <<>> THEN env ELSE [env EXCEPT !.text = r.content.current]
  /\ pc' = IF ~r.ok THEN "failed" ELSE IF isModified(r.content) THEN "done" ELSE "returned"
  /\ UNCHANGED <<scanned, index0, replayVars, settings, uploaderVars, op, writes, uploads>>

FormatFileFinish ==
  /\ pc = "formatting"
  /\ op = "file"
  /\ \E formatted \in PrettierOutputs(content.current) :
       LET r == Passes(mutate(content, formatted), index, settings)
       IN /\ Finish(r)
          /\ trace' = [trace EXCEPT !.formatted = formatted, !.stage = "finished",
                                    !.failure = IF r.ok THEN "none" ELSE "span",
                                    !.passes = @ \o PassTrace(FilePasses,
                                                 mutate(content, formatted), index,
                                                 settings)]

FormatContentFinish ==
  /\ pc = "formatting"
  /\ op = "content"
  /\ \E formatted \in PrettierOutputs(content.current) :
       \E cursorOffset \in CursorOffsets(index, formatted) :
         LET r == Passes(mutate(content, formatted),
                         IF trace.fastAtFormat THEN index ELSE cursorOffset, settings)
         IN /\ Finish(r)
            /\ trace' = [trace EXCEPT !.formatted = formatted, !.stage = "finished",
                                      !.failure = IF r.ok THEN "none" ELSE "span",
                                      !.passes = @ \o PassTrace(FilePasses,
                                                   mutate(content, formatted),
                                                   IF trace.fastAtFormat THEN index
                                                   ELSE cursorOffset, settings)]

FormatSelectionFinish ==
  /\ pc = "formatting"
  /\ op = "selection"
  /\ \E formatted \in PrettierOutputs(content.current) :
       LET r == SelectionPasses(ReconcileNewline(mutate(content, formatted)), settings)
       IN /\ Finish([r EXCEPT !.offset = index])
          /\ trace' = [trace EXCEPT !.formatted = formatted, !.stage = "finished",
                                    !.reconciled =
                                      ReconcileNewline(mutate(content, formatted)).current,
                                    !.failure = IF r.ok THEN "none" ELSE "span",
                                    !.passes = @ \o PassTrace(SubSeq(FilePasses, 1, 2),
                                                 ReconcileNewline(mutate(content, formatted)),
                                                 NoTracking, settings)]

NextOp ==
  \/ FormatFileBegin
  \/ FormatContentBegin
  \/ FormatSelectionBegin
  \/ OpUploadSucceeds
  \/ OpUploadFails
  \/ OpUploadUnresolved
  \/ ToggleFastMode
  \/ UploadsDone
  \/ PrettierThrows
  \/ FormatFileFinish
  \/ FormatContentFinish
  \/ FormatSelectionFinish

SpecOp == InitOp /\ [][NextOp]_vars

(***************************************************************************)
(* SpecOverlap: two format operations of the same kind (formatFile or      *)
(* formatContent) on one file / editor, overlapping in time, and the user  *)
(* typing meanwhile. The texts hold no image reference, so uploadImages    *)
(* returns the offset as given; each operation is suspended once, on the   *)
(* pretty-printer.                                                         *)
(***************************************************************************)
Typed == "u"

OverlapDocs == {l \o t : l \in OpLines \ {MdImage(LocalUrl)}, t \in {<<>>, <<NL>>}}

InitOverlap ==
  /\ NoPass
  /\ NoReplay
  /\ NoUploader
  /\ op \in {"file", "content"}
  /\ settings \in OpSettings
  /\ \E doc \in OverlapDocs : \E fast \in BOOLEAN :
       env = [fastMode |-> fast, text |-> doc,
              cursor |-> [line |-> 0, ch |-> Len(Split(doc)[1])]]
  /\ uploads = <<>>
  /\ effects = <<>>
  /\ trace = NoTrace
  /\ writes = <<>>

\* The operation up to await prettier.format(...): the buffer is built
\* from what the file / the editor holds now.
OverlapBegin(c) ==
  /\ calls[c].pc = "idle"
  /\ LET buf == NewMagicString(env.text)
     IN /\ ~CosReady(settings.tencentCos) \/ findImageMatches(buf.original) = <<>>
        /\ calls' = [calls EXCEPT ![c] =
                       [pc |-> "formatting", content |-> buf,
                        index |-> InitialOffset(op, env.fastMode, buf, env.cursor),
                        results |-> <<>>]]
  /\ UNCHANGED <<passVars, replayVars, settings, failedUrls, candidates, opVars>>

\* the user types a character (or the file is changed by another program)
\* while an operation is suspended
EditorChanges ==
  /\ \E c \in CallIds : calls[c].pc = "formatting"
  /\ \A i \in 1..Len(env.text) : env.text[i] # Typed
  /\ env' = [env EXCEPT !.text = @ \o <<Typed>>]
  /\ UNCHANGED <<passVars, replayVars, settings, uploaderVars, op, writes, uploads,
                 effects, trace>>

\* The rest of the operation, from the formatter's output to the write-back
\* with vault.modify / editor.setValue.
OverlapFinish(c) ==
  /\ calls[c].pc = "formatting"
  /\ \E formatted \in PrettierOutputs(calls[c].content.current) :
       \E cursorOffset \in CursorOffsets(calls[c].index, formatted) :
         LET r == Passes(mutate(calls[c].content, formatted),
                         IF op = "file" \/ env.fastMode THEN calls[c].index
                         ELSE cursorOffset, settings)
         IN /\ calls' = [calls EXCEPT ![c] =
                           [pc |-> IF ~r.ok THEN "failed"
                                   ELSE IF isModified(r.content) THEN "done"
                                   ELSE "returned",
                            content |-> r.content, index |-> r.offset,
                            results |-> <<>>]]
            /\ effects' = effects \o Commit(op, r)
            /\ IF Commit(op, r) = <<>>
               THEN UNCHANGED <<env, writes>>
               ELSE /\ env' = [env EXCEPT !.text = r.content.current]
                    /\ writes' = Append(writes,
                                   [by |-> c, read |-> calls[c].content.original,
                                    replaced |-> env.text,
                                    written |-> r.content.current])
  /\ UNCHANGED <<passVars, replayVars, settings, failedUrls, candidates, op, uploads,
                 trace>>

NextOverlap ==
  \/ \E c \in CallIds : OverlapBegin(c)
  \/ EditorChanges
  \/ \E c \in CallIds : OverlapFinish(c)

SpecOverlap == InitOverlap /\ [][NextOverlap]_vars

(***************************************************************************)
(* Claims about the uploader (SpecUpload).                                 *)
(***************************************************************************)
\* the URL contains the configured custom domain or the canonical host
OnCos(url) ==
  \/ settings.tencentCos.domain # <<>> /\ Includes(url, settings.tencentCos.domain)
  \/ Includes(url, StandardDomain(settings.tencentCos))

\* the uploads in flight or finished of the calls in progress
Started == UNION {{calls[c].results[i] : i \in 1..Len(calls[c].results)} : c \in CallIds}

\* the candidate URLs of call c for which no upload was started
Skipped(c) ==
  {m.url : m \in {findImageMatches(calls[c].content.original)[i] :
                    i \in 1..Len(findImageMatches(calls[c].content.original))}}
    \ {r.match.url : r \in {calls[c].results[i] : i \in 1..Len(calls[c].results)}}

\* C8 as stated: no upload is ever started for a URL that contains the
\* custom domain or the canonical host, or that was marked failed before.
C8_SkipRuleAsStated ==
  \A r \in Started : ~r.wasFailed /\ ~OnCos(r.match.url)

\* C8 (amended): across overlapping uploadImages calls no upload is started
\* for a URL that was marked failed before, nor for a URL starting with http
\* that contains the custom domain or the canonical host; a URL that does
\* not start with http is a local path and only the failed mark stops it.
C8_SkipRule ==
  \A r \in Started :
    ~r.wasFailed /\ (StartsWith(r.match.url, <<"http">>) => ~OnCos(r.match.url))

\* Two calls overlap: one has an upload in flight, the other skipped its
\* candidate, which is on the custom domain or was marked failed.
C8_Witness ==
  /\ Pending(calls["A"].results) # {}
  /\ calls["B"].pc = "awaiting"
  /\ \E u \in Skipped("B") : OnCos(u) \/ u \in failedUrls

C8_WitnessFailed ==
  /\ Pending(calls["A"].results) # {}
  /\ calls["B"].pc = "awaiting"
  /\ \E u \in Skipped("B") : ~OnCos(u) /\ u \in failedUrls

C8_WitnessOnCos ==
  /\ Pending(calls["A"].results) # {}
  /\ calls["B"].pc = "awaiting"
  /\ \E u \in Skipped("B") : OnCos(u) /\ u \notin failedUrls

(***************************************************************************)
(* Claims about the format operations (SpecOp).                            *)
(***************************************************************************)
SetCursorCalled == \E i \in 1..Len(effects) : effects[i].call = "setCursor"

\* formatFile, or formatContent that saw fast mode at both of its reads
TrackingDisabled ==
  \/ op = "file"
  \/ /\ op = "content"
     /\ trace.fastAtCursor
     /\ trace.stage \in {"formatting", "finished"} => trace.fastAtFormat

\* C3: with tracking disabled the offset threaded through uploadImages and
\* every pass stays -1 up to the end of the operation, and setCursor is
\* never called.
C3_SentinelPropagates ==
  TrackingDisabled => index = NoTracking /\ ~SetCursorCalled

\* A fast-mode formatContent wrote the editor after an upload replaced a
\* URL and the passes applied two edits.
C3_Witness ==
  /\ op = "content"
  /\ pc = "done"
  /\ trace.fastAtCursor
  /\ trace.fastAtFormat
  /\ \E i \in 1..Len(uploads) : uploads[i].state = "ok"
  /\ Len(content.log) >= 2
  /\ effects # <<>>

\* what the claim says current is after the reconciliation
Reconciled(original, formatted) ==
  IF EndsWith(original, NL) /\ ~EndsWith(formatted, NL) THEN formatted \o <<NL>>
  ELSE IF ~EndsWith(original, NL) /\ EndsWith(formatted, NL)
       THEN SubSeq(formatted, 1, Len(formatted) - 1)
  ELSE formatted

\* C7: in formatSelection, after current is overwritten with the output F,
\* current is F plus a newline when only the selection ends with one, F
\* without its last character when only F ends with one, F otherwise.
C7_TrailingNewline ==
  op = "selection" /\ trace.stage = "finished"
    => trace.reconciled = Reconciled(scanned, trace.formatted)

\* A selection ending with a newline was formatted to a text without one.
C7_Witness ==
  /\ op = "selection"
  /\ trace.stage = "finished"
  /\ EndsWith(scanned, NL)
  /\ ~EndsWith(trace.formatted, NL)
  /\ trace.formatted # <<>>

C7_WitnessDelete ==
  /\ op = "selection"
  /\ trace.stage = "finished"
  /\ ~EndsWith(scanned, NL)
  /\ EndsWith(trace.formatted, NL)

\* C9: when a step of the operation fails nothing is written and the
\* file / editor text is what it was; a write happens only once every pass
\* has completed.
C9_NoWriteOnFailure ==
  /\ trace.failure # "none" => effects = <<>> /\ env.text = scanned
  /\ effects # <<>> => pc = "done" /\ trace.failure = "none" /\ trace.stage = "finished"

\* A pass after the formatter was given an invalid span: the operation
\* failed with a partly edited buffer that was not written.
C9_Witness ==
  /\ pc = "failed"
  /\ trace.failure = "span"
  /\ trace.stage = "finished"
  /\ content.log # <<>>
  /\ effects = <<>>

C9_WitnessPrettier ==
  /\ pc = "failed"
  /\ trace.failure = "prettier"
  /\ isModified(content)

\* C11: every pass of an operation that completed replaced exactly the
\* characters of its spans in the text as it was when the pass started, and
\* the spans of a pass that uses match() are those of the matches in that
\* pass-start text.
C11_PassFrame ==
  \A i \in 1..Len(trace.passes) :
    trace.passes[i].ok =>
      /\ trace.passes[i].edits = trace.passes[i].frame
      /\ trace.passes[i].after = SpliceAll(trace.passes[i].before, trace.passes[i].edits)

\* the uploads of the operation that yielded no replacement
NoReplacement(states) == {i \in 1..Len(uploads) : uploads[i].state \in states}

\* uploadImages of the operation has returned or thrown
UploadsSettled == Len(trace.passes) >= 1

\* C12 as stated: after uploadImages, every candidate whose upload failed
\* or whose local path did not resolve is in the failed set, no edit was
\* applied for it, the call returned normally and the replacements of the
\* successful candidates are in the buffer.
C12_FailedUploadAsStated ==
  UploadsSettled =>
    /\ \A i \in NoReplacement({"failed", "null"}) : uploads[i].match.url \in failedUrls
    /\ trace.passes[1].ok
    /\ trace.passes[1].after = SpliceAll(trace.passes[1].before, trace.passes[1].edits)

\* C12 (amended): after uploadImages, every candidate whose upload failed
\* (an error or a non-2xx response) is in the failed set; no edit was applied
\* for a candidate without a replacement, the call returned normally and the
\* replacements of exactly the successful candidates are in the buffer. An
\* unresolved local path gives no replacement without being marked failed.
C12_FailedUpload ==
  UploadsSettled =>
    /\ \A i \in NoReplacement({"failed"}) : uploads[i].match.url \in failedUrls
    /\ trace.passes[1].ok
    /\ trace.passes[1].after = SpliceAll(trace.passes[1].before, trace.passes[1].edits)

\* uploadImages returned after the upload of the second candidate failed
\* and the upload of the first succeeded.
C12_Witness ==
  /\ UploadsSettled
  /\ Len(uploads) = 2
  /\ uploads[1].state = "ok"
  /\ uploads[2].state = "failed"
  /\ trace.passes[1].after # trace.passes[1].before

(***************************************************************************)
(* Claims about findImageMatches (SpecMatches).                            *)
(***************************************************************************)
\* the URL span of candidate m is the link target: what stands between the
\* parentheses of ![alt](url), or the quoted value of the src attribute
LinkTarget(text, m) ==
  IF text[m.start + 1] = "!"
  THEN /\ text[m.urlStart] = "("
       /\ text[m.urlEnd + 1] = ")"
       /\ m.urlEnd + 1 = m.end
  ELSE /\ m.urlStart >= m.start + 2
       /\ text[m.urlStart - 1] = "src="
       /\ text[m.urlStart] \in Quotes
       /\ text[m.urlEnd + 1] \in Quotes

\* C13: for every candidate findImageMatches returns, [urlStart, urlEnd) lies
\* inside [start, end), the text there is the candidate's url, and the span
\* is the link target occurrence
C13_UrlSpan ==
  pc = "matched" =>
    \A i \in 1..Len(candidates) :
      /\ candidates[i].start <= candidates[i].urlStart
      /\ candidates[i].urlStart <= candidates[i].urlEnd
      /\ candidates[i].urlEnd <= candidates[i].end
      /\ Slice(content.original, candidates[i].urlStart, candidates[i].urlEnd)
           = candidates[i].url
      /\ LinkTarget(content.original, candidates[i])

(***************************************************************************)
(* Claims about overlapping operations (SpecOverlap).                      *)
(***************************************************************************)
\* C15: no format operation loses a concurrent change: what an operation
\* writes with vault.modify / editor.setValue is derived from the text the
\* file / the editor holds at the moment of the write, so the text it
\* replaces is the text it read, whatever the user or another operation
\* did while it was suspended
C15_NoLostChange ==
  \A i \in 1..Len(writes) : writes[i].replaced = writes[i].read

====
